---- MODULE Spec2Model ----
(***************************************************************************)
(* Model of game_scraper.py: get_table_info / get_game_info parse one      *)
(* game-log page into records [date, "Home"|"Away", opponent];             *)
(* scrape_games walks the (truncated) record list, sleeps, asks the        *)
(* play-by-play client for one CSV per record and logs any exception.      *)
(*                                                                         *)
(* Texts that the code takes apart (the date, the game_location cell) are  *)
(* sequences of one-character strings; texts it only compares or looks up  *)
(* (class names, opponent codes) are strings.  A file path is the sequence *)
(* of the pieces of the f-string that builds it, integers rendered digit   *)
(* by digit.                                                               *)
(***************************************************************************)
EXTENDS Integers, Sequences, FiniteSets, TLC

VARIABLES
    pc,               \* "main" | "parsed" | "loop" | "done" | "error"
    page,             \* the HTTP response: status, table structure, rows
    num_games,        \* the num_games argument of scrape_games
    log,              \* what logger.error / logger.exception recorded, in order
    error,            \* the exception that ended the run, "none" if none
    table_info,       \* what get_table_info returned (local `rows`, line 94)
    game_rows,        \* what get_game_info returned / game_data of scrape_games
    games_to_scrape,  \* the truncated list (line 157)
    i,                \* loop iterations of scrape_games completed
    sleeps,           \* number of time.sleep(scrape_interval) calls made
    calls,            \* client.play_by_play invocations, in order
    files,            \* CSV paths written under pbp_games/
    pbp_dir,          \* TRUE once pathlib.Path("pbp_games").mkdir ran
    processed         \* per loop iteration: the record and how it ended

vars == <<pc, page, num_games, log, error, table_info, game_rows,
          games_to_scrape, i, sleeps, calls, files, pbp_dir, processed>>

----------------------------------------------------------------------------
(* Bounds of the model *)

MaxRows == 2
MaxGames == 2
MaxNeg == 1

----------------------------------------------------------------------------
(* Generic helpers *)

Min(a, b) == IF a < b THEN a ELSE b
Max(a, b) == IF a > b THEN a ELSE b
Range(s) == {s[k] : k \in 1..Len(s)}
SeqsUpTo(S, n) == UNION {[1..k -> S] : k \in 0..n}

----------------------------------------------------------------------------
(* Python built-ins used by the code *)

DigitChars == <<"0", "1", "2", "3", "4", "5", "6", "7", "8", "9">>
Digits == Range(DigitChars)
DigitVal(c) == (CHOOSE k \in 1..Len(DigitChars) : DigitChars[k] = c) - 1

\* str.split(sep) on a text: the pieces between separators, "" pieces kept.
RECURSIVE SplitFrom(_, _, _)
SplitFrom(s, sep, cur) ==
    IF s = <<>> THEN <<cur>>
    ELSE IF Head(s) = sep THEN <<cur>> \o SplitFrom(Tail(s), sep, <<>>)
    ELSE SplitFrom(Tail(s), sep, Append(cur, Head(s)))

Split(s, sep) == SplitFrom(s, sep, <<>>)

\* int(text): defined on non-empty runs of decimal digits (the characters of
\* the modelled alphabet); anything else raises ValueError.
IntParsable(s) == Len(s) > 0 /\ \A k \in 1..Len(s) : s[k] \in Digits

RECURSIVE IntValue(_, _)
IntValue(s, acc) ==
    IF s = <<>> THEN acc ELSE IntValue(Tail(s), 10 * acc + DigitVal(Head(s)))

ParseInt(s) == IntValue(s, 0)

\* str(n) as used by the f-strings.
RECURSIVE NatToStr(_)
NatToStr(n) ==
    IF n < 10 THEN <<DigitChars[n + 1]>>
    ELSE Append(NatToStr(n \div 10), DigitChars[(n % 10) + 1])

IntToStr(n) == IF n < 0 THEN <<"-">> \o NatToStr(0 - n) ELSE NatToStr(n)

\* seq[:n] with n None, non-negative or negative.
None == [kind |-> "None", val |-> 0]
IntArg(n) == [kind |-> "int", val |-> n]
NonIntArg == [kind |-> "other", val |-> 0]

SliceTo(s, n) ==
    IF n.kind = "None" THEN s
    ELSE IF n.val >= 0 THEN SubSeq(s, 1, Min(n.val, Len(s)))
    ELSE SubSeq(s, 1, Max(Len(s) + n.val, 0))

----------------------------------------------------------------------------
(* The page and its rows *)

\* A row: its class list and its td cells by data-stat (a record; a header
\* row of the real table carries th cells only, so no td the code looks for).
IsHeader(row) == "thead" \in Range(row.class)
HasCell(row, stat) == stat \in DOMAIN row.cells

DateText3 == <<"2", "0", "1", "7", "-", "1", "0", "-", "1", "7">>
DateText2 == <<"2", "0", "1", "7", "-", "1", "0">>
DateText4 == <<"2", "0", "1", "7", "-", "1", "0", "-", "1", "7", "-", "1">>
DateTextX == <<"2", "0", "1", "7", "-", "x", "-", "1", "7">>
DateTexts == {DateText3, DateText2, DateText4, DateTextX}

LocTexts == {<<>>, <<"@">>, <<" ", "@">>}
OppTexts == {"BOS", "XXX"}

GameRowSet ==
    {[class |-> <<>>, cells |-> [date_game |-> d, game_location |-> l, opp_id |-> o]] :
        d \in DateTexts, l \in LocTexts, o \in OppTexts}
HeaderRow == [class |-> <<"thead">>, cells |-> [ranker |-> <<"R", "k">>]]
HeaderRowWithCells ==
    [class |-> <<"thead">>,
     cells |-> [date_game |-> DateText3, game_location |-> <<>>, opp_id |-> "BOS"]]
BrokenRow == [class |-> <<>>, cells |-> [ranker |-> <<"1">>]]
RowSet == GameRowSet \cup {HeaderRow, HeaderRowWithCells, BrokenRow}

\* Line 74: the one status code the code tests for.
StatusTooMany == 429
Statuses == {200, StatusTooMany}

\* table: "none" (no table#pgl_basic), "nobody" (table without tbody), "ok".
Pages ==
    {[status |-> st, table |-> "ok", rows |-> rs] :
        st \in Statuses, rs \in SeqsUpTo(RowSet, MaxRows)}
    \cup {[status |-> st, table |-> t, rows |-> <<>>] :
        st \in Statuses, t \in {"none", "nobody"}}

----------------------------------------------------------------------------
(* get_table_info *)

\* Lines 54-58: "Home" unless the game_location text is exactly "@".
home_game(row) == IF ~(row.cells.game_location = <<"@">>) THEN "Home" ELSE "Away"

\* The loop of lines 46-61 over the remaining rows, game_data so far in acc.
\* row.find(...) of an absent td is None, and None.text raises AttributeError.
RECURSIVE TableLoop(_, _)
TableLoop(rows, acc) ==
    IF rows = <<>> THEN [raised |-> "none", val |-> acc]
    ELSE LET row == Head(rows) IN
         IF IsHeader(row) THEN TableLoop(Tail(rows), acc)
         ELSE IF ~HasCell(row, "date_game") \/ ~HasCell(row, "opp_id")
                 \/ ~HasCell(row, "game_location")
              THEN [raised |-> "AttributeError", val |-> <<>>]
              ELSE TableLoop(Tail(rows),
                             Append(acc, <<row.cells.date_game, home_game(row),
                                           row.cells.opp_id>>))

\* Variant: the header test leaves the loop (break) instead of skipping the row.
RECURSIVE TableLoopBreak(_, _)
TableLoopBreak(rows, acc) ==
    IF rows = <<>> THEN [raised |-> "none", val |-> acc]
    ELSE LET row == Head(rows) IN
         IF IsHeader(row) THEN [raised |-> "none", val |-> acc]
         ELSE IF ~HasCell(row, "date_game") \/ ~HasCell(row, "opp_id")
                 \/ ~HasCell(row, "game_location")
              THEN [raised |-> "AttributeError", val |-> <<>>]
              ELSE TableLoopBreak(Tail(rows),
                                  Append(acc, <<row.cells.date_game, home_game(row),
                                                row.cells.opp_id>>))

get_table_info_break(rows) == TableLoopBreak(rows, <<>>)

get_table_info(rows) == TableLoop(rows, <<>>)

----------------------------------------------------------------------------
(* get_game_info *)

\* Line 98 for one row: [int(i) for i in row[0].split("-")].
DateParsable(text) == \A k \in 1..Len(Split(text, "-")) : IntParsable(Split(text, "-")[k])
ConvertDate(text) == [k \in 1..Len(Split(text, "-")) |-> ParseInt(Split(text, "-")[k])]

\* Line 74-78: a 429 is logged; the HTTPError is built but not raised.
StatusLog(p) == IF p.status = StatusTooMany THEN <<"TooManyRequests">> ELSE <<>>

\* The whole function: what it raises, what it logs, its local rows after
\* get_table_info, and the value it returns.
NoTableInfo == [ret |-> FALSE, val |-> <<>>]

get_game_info(p) ==
    IF p.table = "none"
    THEN [raised |-> "ValueError", log |-> StatusLog(p) \o <<"TableNotFound">>,
          info |-> NoTableInfo, val |-> <<>>]
    ELSE IF p.table = "nobody"
    THEN [raised |-> "AttributeError", log |-> StatusLog(p),
          info |-> NoTableInfo, val |-> <<>>]
    ELSE LET t == get_table_info(p.rows) IN
         IF t.raised # "none"
         THEN [raised |-> t.raised, log |-> StatusLog(p), info |-> NoTableInfo, val |-> <<>>]
         ELSE IF \E k \in 1..Len(t.val) : ~DateParsable(t.val[k][1])
         THEN [raised |-> "ValueError", log |-> StatusLog(p),
               info |-> [ret |-> TRUE, val |-> t.val], val |-> <<>>]
         ELSE [raised |-> "none", log |-> StatusLog(p),
               info |-> [ret |-> TRUE, val |-> t.val],
               val |-> [k \in 1..Len(t.val) |->
                          <<ConvertDate(t.val[k][1]), t.val[k][2], t.val[k][3]>>]]

----------------------------------------------------------------------------
(* scrape_games *)

\* Lines 121-152.
dict_teams ==
    [ATL |-> "ATLANTA_HAWKS", BOS |-> "BOSTON_CELTICS", BRK |-> "BROOKLYN_NETS",
     CHI |-> "CHICAGO_BULLS", CHO |-> "CHARLOTTE_HORNETS",
     CLE |-> "CLEVELAND_CAVALIERS", DAL |-> "DALLAS_MAVERICKS",
     DEN |-> "DENVER_NUGGETS", DET |-> "DETROIT_PISTONS",
     GSW |-> "GOLDEN_STATE_WARRIORS", HOU |-> "HOUSTON_ROCKETS",
     IND |-> "INDIANA_PACERS", LAC |-> "LOS_ANGELES_CLIPPERS",
     LAL |-> "LOS_ANGELES_LAKERS", MEM |-> "MEMPHIS_GRIZZLIES",
     MIA |-> "MIAMI_HEAT", MIL |-> "MILWAUKEE_BUCKS",
     MIN |-> "MINNESOTA_TIMBERWOLVES", NOP |-> "NEW_ORLEANS_PELICANS",
     NYK |-> "NEW_YORK_KNICKS", OKC |-> "OKLAHOMA_CITY_THUNDER",
     ORL |-> "ORLANDO_MAGIC", PHI |-> "PHILADELPHIA_76ERS", PHO |-> "PHOENIX_SUNS",
     POR |-> "PORTLAND_TRAIL_BLAZERS", SAC |-> "SACRAMENTO_KINGS",
     SAS |-> "SAN_ANTONIO_SPURS", TOR |-> "TORONTO_RAPTORS", UTA |-> "UTAH_JAZZ",
     WAS |-> "WASHINGTON_WIZARDS"]

\* Line 154: num_games is not None and not isinstance(num_games, int).
NumGamesRejected(n) == n.kind # "None" /\ n.kind # "int"

\* Variant: the slice bound is off by one (game_data[:num_games + 1]).
TruncateOffByOne(game_data, n) ==
    IF n.kind = "None" THEN game_data ELSE SliceTo(game_data, IntArg(n.val + 1))

\* Line 157.
Truncate(game_data, n) == SliceTo(game_data, n)

\* Line 163: year, month, day = game[0] needs exactly three elements.
Unpackable(game) == Len(game[1]) = 3

\* Lines 177 and 186: the f-string of the output path, piece by piece.
DatePrefix(game) ==
    <<"pbp_games/">> \o IntToStr(game[1][1]) \o <<"_">> \o IntToStr(game[1][2])
        \o <<"_">> \o IntToStr(game[1][3])
HomePath(game) == DatePrefix(game) \o <<"_", "CLE", "_PBP_", "HOME", ".csv">>
\* Variant: the away branch reuses the home branch's path.
AwayPathAsHome(game) == HomePath(game)

AwayPath(game) == DatePrefix(game) \o <<"_", "CLE", "_PBP_", "AWAY", ".csv">>

\* A client.play_by_play invocation.
Call(team, game, path) ==
    [home_team |-> team, year |-> game[1][1], month |-> game[1][2],
     day |-> game[1][3], output_file_path |-> path]

\* Lines 169-189, the body of the try for one record; client_ok is whether the
\* external client returns (and has written the CSV) or raises.
TryBody(game, client_ok) ==
    IF game[2] = "Home"
    THEN [raised |-> IF client_ok THEN "none" ELSE "ClientError",
          calls |-> <<Call(dict_teams["CLE"], game, HomePath(game))>>,
          files |-> IF client_ok THEN {HomePath(game)} ELSE {}]
    ELSE IF game[2] = "Away"
    THEN IF game[3] \notin DOMAIN dict_teams
         THEN [raised |-> "KeyError", calls |-> <<>>, files |-> {}]
         ELSE [raised |-> IF client_ok THEN "none" ELSE "ClientError",
               calls |-> <<Call(dict_teams[game[3]], game, AwayPath(game))>>,
               files |-> IF client_ok THEN {AwayPath(game)} ELSE {}]
    ELSE [raised |-> "ValueError", calls |-> <<>>, files |-> {}]

\* Variant: the handler catches the client's errors only.
CaughtClientOnly(exc) == exc = "ClientError"

\* Line 190: except Exception catches every exception the body raises.
Caught(exc) == TRUE

----------------------------------------------------------------------------
(* Actions *)

\* main, line 202: game_rows = get_game_info(URL).
GetGameInfo ==
    /\ pc = "main"
    /\ LET r == get_game_info(page) IN
        /\ log' = log \o r.log
        /\ table_info' = r.info
        /\ game_rows' = r.val
        /\ error' = r.raised
        /\ pc' = IF r.raised = "none" THEN "parsed" ELSE "error"
    /\ UNCHANGED <<page, num_games, games_to_scrape, i, sleeps, calls, files,
                   pbp_dir, processed>>

\* scrape_games up to the loop: validation, truncation, mkdir (lines 154-160).
ScrapeGamesStart ==
    /\ pc = "parsed"
    /\ IF NumGamesRejected(num_games)
       THEN /\ pc' = "error"
            /\ error' = "ValueError"
            /\ UNCHANGED <<games_to_scrape, pbp_dir>>
       ELSE /\ pc' = "loop"
            /\ games_to_scrape' = Truncate(game_rows, num_games)
            /\ pbp_dir' = TRUE
            /\ UNCHANGED error
    /\ UNCHANGED <<page, num_games, log, table_info, game_rows, i, sleeps, calls,
                   files, processed>>

\* One iteration of the loop (lines 162-191).
ScrapeGame ==
    /\ pc = "loop"
    /\ i < Len(games_to_scrape)
    /\ \E client_ok \in BOOLEAN :
        LET game == games_to_scrape[i + 1] IN
        IF ~Unpackable(game)
        THEN /\ pc' = "error"
             /\ error' = "ValueError"
             /\ UNCHANGED <<i, sleeps, calls, files, log, processed>>
        ELSE LET r == TryBody(game, client_ok) IN
             /\ sleeps' = sleeps + 1
             /\ calls' = calls \o r.calls
             /\ files' = files \cup r.files
             /\ processed' = Append(processed, [game |-> game, result |-> r.raised])
             /\ IF r.raised = "none"
                THEN /\ i' = i + 1
                     /\ UNCHANGED <<pc, error, log>>
                ELSE IF Caught(r.raised)
                THEN /\ log' = Append(log, r.raised)
                     /\ i' = i + 1
                     /\ UNCHANGED <<pc, error>>
                ELSE /\ pc' = "error"
                     /\ error' = r.raised
                     /\ UNCHANGED <<i, log>>
    /\ UNCHANGED <<page, num_games, table_info, game_rows, games_to_scrape, pbp_dir>>

\* The loop is exhausted and scrape_games (and main) returns.
ScrapeGamesReturn ==
    /\ pc = "loop"
    /\ i = Len(games_to_scrape)
    /\ pc' = "done"
    /\ UNCHANGED <<page, num_games, log, error, table_info, game_rows,
                   games_to_scrape, i, sleeps, calls, files, pbp_dir, processed>>

----------------------------------------------------------------------------
(* Specifications *)

\* main() (num_games = 2, line 203) or the test's call (num_games omitted,
\* test_scraper.py line 25) on any page of the bounded set.
MainNumGamesArg == 2
MainNumGames == {IntArg(MainNumGamesArg), None}

Init ==
    /\ pc = "main"
    /\ page \in Pages
    /\ num_games \in MainNumGames
    /\ log = <<>>
    /\ error = "none"
    /\ table_info = NoTableInfo
    /\ game_rows = <<>>
    /\ games_to_scrape = <<>>
    /\ i = 0
    /\ sleeps = 0
    /\ calls = <<>>
    /\ files = {}
    /\ pbp_dir = FALSE
    /\ processed = <<>>

Next == GetGameInfo \/ ScrapeGamesStart \/ ScrapeGame \/ ScrapeGamesReturn

Spec == Init /\ [][Next]_vars

\* scrape_games called directly on records of the documented form
\* [[year, month, day], location, opponent].
Dates == {<<2017, 1, 11>>, <<2017, 11, 1>>}
Locations == {"Home", "Away", "Neutral"}
GameRecords == {<<d, l, o>> : d \in Dates, l \in Locations, o \in OppTexts}
NumGamesArgs ==
    {None, NonIntArg} \cup {IntArg(n) : n \in (0 - MaxNeg)..(MaxGames + 1)}
NoPage == [status |-> 200, table |-> "none", rows |-> <<>>]

InitScrape ==
    /\ pc = "parsed"
    /\ page = NoPage
    /\ num_games \in NumGamesArgs
    /\ log = <<>>
    /\ error = "none"
    /\ table_info = NoTableInfo
    /\ game_rows \in SeqsUpTo(GameRecords, MaxGames)
    /\ games_to_scrape = <<>>
    /\ i = 0
    /\ sleeps = 0
    /\ calls = <<>>
    /\ files = {}
    /\ pbp_dir = FALSE
    /\ processed = <<>>

NextScrape == ScrapeGamesStart \/ ScrapeGame \/ ScrapeGamesReturn

SpecScrape == InitScrape /\ [][NextScrape]_vars

----------------------------------------------------------------------------
(* Vocabulary of the properties *)

NotHeader(row) == ~IsHeader(row)
NonHeaderRows == SelectSeq(page.rows, NotHeader)
HeaderCount == Len(SelectSeq(page.rows, IsHeader))

Returned == pc \in {"parsed", "loop", "done"}
ProcessedGames == [k \in 1..Len(processed) |-> processed[k].game]

\* A record for which the code can name the home team of the request.
Requestable(game) ==
    game[2] = "Home" \/ (game[2] = "Away" /\ game[3] \in DOMAIN dict_teams)
RequestedOf(p) == Requestable(p.game)
Requested == SelectSeq(processed, RequestedOf)
Succeeded(p) == p.result = "none"
Failed(p) == p.result # "none"

PairwiseDistinct(s) == \A a, b \in 1..Len(s) : a # b => s[a] # s[b]
DateLocation(s) == [k \in 1..Len(s) |-> <<s[k][1], s[k][2]>>]

NonNegativeOrNone(n) == n.kind = "None" \/ (n.kind = "int" /\ n.val >= 0)
NegativeOrNonInt(n) == n.kind = "other" \/ (n.kind = "int" /\ n.val < 0)
WantedCount(n, len) == IF n.kind = "None" THEN len ELSE Min(n.val, len)

\* The franchise code the team map gives for a team, and the file name of
\* the naming convention {year}_{month}_{day}_{code}_PBP_{HOME|AWAY}.csv.
FranchiseCode(team) == CHOOSE c \in DOMAIN dict_teams : dict_teams[c] = team
ConventionPath(game) ==
    <<"pbp_games/">> \o IntToStr(game[1][1]) \o <<"_">> \o IntToStr(game[1][2])
        \o <<"_">> \o IntToStr(game[1][3])
        \o <<"_", IF game[2] = "Home" THEN "CLE" ELSE FranchiseCode(dict_teams[game[3]]),
             "_PBP_", IF game[2] = "Home" THEN "HOME" ELSE "AWAY", ".csv">>

----------------------------------------------------------------------------
(* Properties *)

\* C1: when the fetched response has status 429, get_game_info aborts, so
\* the run makes no play-by-play request and writes no CSV file.
C1_RateLimitAborts ==
    page.status = StatusTooMany =>
        /\ calls = <<>>
        /\ files = {}

\* C2: scrape_games with a negative or non-integer num_games fails before
\* any sleep, request or file write: no delay is incurred, no file written.
C2_InvalidCountFailsFast ==
    NegativeOrNonInt(num_games) =>
        /\ sleeps = 0
        /\ calls = <<>>
        /\ files = {}

\* C3: every request writes to the path of the naming convention: code CLE
\* and suffix HOME for a Home record, the mapped opponent's franchise code
\* and suffix AWAY for an Away record.
C3_FileNameConvention ==
    /\ Len(calls) = Len(Requested)
    /\ \A k \in 1..Len(calls) :
          calls[k].output_file_path = ConventionPath(Requested[k].game)

\* C4 as claimed: with num_games = N >= 0 (or None) the records processed are
\* exactly the first min(N, len) (or all) in input order, and each processed
\* record gets one play-by-play request.
C4_OneRequestPerRecord ==
    (pc = "done" /\ NonNegativeOrNone(num_games)) =>
        /\ ProcessedGames = SubSeq(game_rows, 1, WantedCount(num_games, Len(game_rows)))
        /\ Len(calls) = Len(processed)

\* C4 as amended: the records processed are exactly the first min(N, len)
\* (or all) in input order, one sleep each, and the requests made are, in
\* order, one for each processed record whose home team the code can name
\* (Home, or Away with a mapped opponent), for that team and date; a
\* processed record of any other kind gets no request.
C4_TruncationAndRequests ==
    (pc = "done" /\ NonNegativeOrNone(num_games)) =>
        /\ ProcessedGames = SubSeq(game_rows, 1, WantedCount(num_games, Len(game_rows)))
        /\ sleeps = Len(processed)
        /\ Len(calls) = Len(Requested)
        /\ \A k \in 1..Len(calls) :
              LET g == Requested[k].game IN
              /\ <<calls[k].year, calls[k].month, calls[k].day>> = g[1]
              /\ calls[k].home_team =
                    IF g[2] = "Home" THEN "CLEVELAND_CAVALIERS" ELSE dict_teams[g[3]]

\* C4 witness: num_games = 1 on two records, the first requestable: one
\* record processed, one request made.
C4_Witness ==
    /\ pc = "done"
    /\ num_games = IntArg(1)
    /\ Len(game_rows) = 2
    /\ Len(processed) = 1
    /\ Len(calls) = 1

\* C5: a failure on one record (client error, unmapped opponent, invalid
\* location) is logged, writes no file, and never aborts the batch: the only
\* abort is the rejection of num_games before the loop, the records are
\* processed in order, the loop can always go on, and at the end every record
\* of the truncated list has been processed.
C5_FailureNeverAborts ==
    /\ pc = "error" => (processed = <<>> /\ NumGamesRejected(num_games))
    /\ pc \in {"loop", "done"} =>
          /\ i = Len(processed)
          /\ ProcessedGames = SubSeq(games_to_scrape, 1, i)
          /\ log = [k \in 1..Len(SelectSeq(processed, Failed)) |->
                       SelectSeq(processed, Failed)[k].result]
          /\ files = {calls[k].output_file_path : k \in
                        {j \in 1..Len(calls) : Requested[j].result = "none"}}
    /\ pc = "loop" => ENABLED NextScrape
    /\ pc = "done" => Len(processed) = Len(games_to_scrape)

\* C5 witness: the run ended normally although a record failed (unmapped
\* opponent) and the record after it was written.
C5_Witness ==
    /\ pc = "done"
    /\ Len(processed) = 2
    /\ processed[1].result = "KeyError"
    /\ processed[2].result = "none"
    /\ Cardinality(files) = 1

\* C6 as claimed: without num_games, on pairwise distinct records whose
\* requests all succeed, the files written are as many as the records.
C6_DistinctRecordsDistinctFiles ==
    (/\ pc = "done"
     /\ num_games = None
     /\ PairwiseDistinct(game_rows)
     /\ \A k \in 1..Len(processed) : Succeeded(processed[k]))
        => Cardinality(files) = Len(game_rows)

\* C6 as amended: without num_games, on records with pairwise distinct
\* (date, location) pairs whose requests all succeed, the files written are
\* as many as the records.
C6_DistinctDateLocation ==
    (/\ pc = "done"
     /\ num_games = None
     /\ PairwiseDistinct(DateLocation(game_rows))
     /\ \A k \in 1..Len(processed) : Succeeded(processed[k]))
        => Cardinality(files) = Len(game_rows)

\* C6 witness: a home and an away game of the same date, both written.
C6_Witness ==
    /\ pc = "done"
    /\ num_games = None
    /\ Len(game_rows) = 2
    /\ game_rows[1][1] = game_rows[2][1]
    /\ game_rows[1][2] = "Home" /\ game_rows[2][2] = "Away"
    /\ \A k \in 1..Len(processed) : Succeeded(processed[k])
    /\ Cardinality(files) = 2

\* C7: what get_table_info returns has one record per non-header row, none
\* for a header row, in the rows' order; so has what get_game_info returns.
C7_HeaderRowsSkipped ==
    /\ table_info.ret =>
          /\ Len(table_info.val) = Len(page.rows) - HeaderCount
          /\ \A k \in 1..Len(table_info.val) :
                /\ k <= Len(NonHeaderRows)
                /\ table_info.val[k][1] = NonHeaderRows[k].cells.date_game
                /\ table_info.val[k][3] = NonHeaderRows[k].cells.opp_id
    /\ Returned =>
          /\ Len(game_rows) = Len(page.rows) - HeaderCount
          /\ \A k \in 1..Len(game_rows) :
                /\ k <= Len(NonHeaderRows)
                /\ game_rows[k][3] = NonHeaderRows[k].cells.opp_id

\* C7 witness: a header row ahead of a game row, and one record returned.
C7_Witness ==
    /\ pc = "parsed"
    /\ Len(page.rows) = 2
    /\ IsHeader(page.rows[1])
    /\ Len(game_rows) = 1

\* C8: get_game_info never returns a record whose date is not a list of
\* exactly three integers.
C8_DatesAreTriples ==
    \A k \in 1..Len(game_rows) : Len(game_rows[k][1]) = 3

\* C9: a page without the table, or with the table but no table body, ends
\* get_game_info with a logged ValueError both times.
C9_MissingTableOrBody ==
    (page.table \in {"none", "nobody"} /\ pc # "main") =>
        /\ pc = "error"
        /\ error = "ValueError"
        /\ log # <<>>
        /\ log[Len(log)] \in {"TableNotFound", "TableBodyNotFound"}
        /\ files = {}

\* C10: every record of get_table_info has location Home or Away, and Away
\* exactly when the row's game_location text contains the character "@".
C10_LocationFromAtSign ==
    table_info.ret =>
        \A k \in 1..Len(table_info.val) :
            /\ table_info.val[k][2] \in {"Home", "Away"}
            /\ k <= Len(NonHeaderRows)
            /\ table_info.val[k][2] = "Away"
                  <=> "@" \in Range(NonHeaderRows[k].cells.game_location)

====
